---- MODULE Spec2Model ----
(***************************************************************************)
(* A model of image2unicodeart (src/src/lib.rs, src/src/main.rs): one      *)
(* conversion of an image into character art, from the parsed command      *)
(* line to the text that reaches the output file or standard output.       *)
(*                                                                         *)
(* The program computes in IEEE-754 binary32 (f32).  The operators F32*    *)
(* below reproduce those operations bit for bit (round to nearest, ties    *)
(* to even, 24-bit significand) on finite values and NaN.  Infinities,     *)
(* subnormals and exponent overflow are not modelled: every value the      *)
(* model computes stays far inside the normal range, and every integer     *)
(* below 2^31.                                                             *)
(***************************************************************************)
EXTENDS Integers, Sequences, FiniteSets, TLC

(***************************************************************************)
(* f32 arithmetic                                                          *)
(***************************************************************************)

\* A finite f32 is (-1)^s * m * 2^e with m = 0 or 2^23 <= m < 2^24.
TwoTo23 == 8388608
TwoTo24 == 16777216

RECURSIVE Pow2(_)
Pow2(n) == IF n = 0 THEN 1 ELSE 2 * Pow2(n - 1)

F32NaN == [nan |-> TRUE, s |-> 0, m |-> 0, e |-> 0]

F32Zero(s) == [nan |-> FALSE, s |-> s, m |-> 0, e |-> 0]

\* The value with significand m in [2^23, 2^24) and the discarded part
\* rem/den (0 <= rem < den), rounded to nearest, ties to even.
F32Pack(s, m, e, rem, den) ==
    LET up == (2 * rem > den) \/ (2 * rem = den /\ m % 2 = 1)
        m1 == IF up THEN m + 1 ELSE m
    IN  IF m1 = TwoTo24
        THEN [nan |-> FALSE, s |-> s, m |-> TwoTo23, e |-> e + 1]
        ELSE [nan |-> FALSE, s |-> s, m |-> m1, e |-> e]

\* n * 2^e for an integer n >= 2^23, brought down to 24 bits; sticky records
\* whether a nonzero bit has already been shifted out.
RECURSIVE F32ShiftDown(_, _, _, _, _)
F32ShiftDown(s, n, e, half, sticky) ==
    IF n < TwoTo24
    THEN F32Pack(s, n, e, (IF half THEN 2 ELSE 0) + (IF sticky THEN 1 ELSE 0), 4)
    ELSE F32ShiftDown(s, n \div 2, e + 1, n % 2 = 1, half \/ sticky)

RECURSIVE F32ShiftUp(_, _, _)
F32ShiftUp(s, n, e) ==
    IF n >= TwoTo23
    THEN [nan |-> FALSE, s |-> s, m |-> n, e |-> e]
    ELSE F32ShiftUp(s, n * 2, e - 1)

\* `n as f32` for an unsigned integer n.
F32FromNat(n) ==
    IF n = 0 THEN F32Zero(0)
    ELSE IF n < TwoTo23 THEN F32ShiftUp(0, n, 0)
    ELSE F32ShiftDown(0, n, 0, FALSE, FALSE)

F32Neg(a) == [a EXCEPT !.s = 1 - a.s]

\* |a| < |b| for finite a, b.
F32MagLess(a, b) ==
    IF a.m = 0 THEN b.m # 0
    ELSE IF b.m = 0 THEN FALSE
    ELSE (a.e < b.e) \/ (a.e = b.e /\ a.m < b.m)

\* a < b (false when either is NaN)
F32Less(a, b) ==
    IF a.nan \/ b.nan THEN FALSE
    ELSE IF a.m = 0 /\ b.m = 0 THEN FALSE
    ELSE IF a.s = 0 /\ b.s = 0 THEN F32MagLess(a, b)
    ELSE IF a.s = 1 /\ b.s = 1 THEN F32MagLess(b, a)
    ELSE a.s = 1

\* a * b
F32Mul(a, b) ==
    IF a.nan \/ b.nan THEN F32NaN
    ELSE IF a.m = 0 \/ b.m = 0 THEN F32Zero((a.s + b.s) % 2)
    ELSE
    LET s    == (a.s + b.s) % 2
        ah   == a.m \div 4096
        al   == a.m % 4096
        bh   == b.m \div 4096
        bl   == b.m % 4096
        mid  == ah * bl + al * bh
        low  == (mid % 4096) * 4096 + al * bl
        high == ah * bh + (mid \div 4096) + (low \div TwoTo24)
        lrem == low % TwoTo24
    IN  \* the product is high * 2^24 + lrem, with 2^22 <= high < 2^24
        IF high >= TwoTo23
        THEN F32Pack(s, high, a.e + b.e + 24, lrem, TwoTo24)
        ELSE F32Pack(s, 2 * high + (lrem \div TwoTo23), a.e + b.e + 23,
                     lrem % TwoTo23, TwoTo23)

\* The quotient bits of r / d, one per step, q being those found so far.
RECURSIVE F32DivBits(_, _, _, _)
F32DivBits(r, d, q, n) ==
    IF n = 0 THEN <<q, r>>
    ELSE IF 2 * r >= d THEN F32DivBits(2 * r - d, d, 2 * q + 1, n - 1)
    ELSE F32DivBits(2 * r, d, 2 * q, n - 1)

\* a / b for b nonzero
F32Div(a, b) ==
    IF a.nan \/ b.nan THEN F32NaN
    ELSE IF a.m = 0 THEN F32Zero((a.s + b.s) % 2)
    ELSE
    LET s  == (a.s + b.s) % 2
        ge == a.m >= b.m
        r0 == IF ge THEN a.m ELSE 2 * a.m
        qr == F32DivBits(r0 - b.m, b.m, 1, 23)
    IN  F32Pack(s, qr[1], a.e - b.e - (IF ge THEN 23 ELSE 24), qr[2], b.m)

\* Bring a 27-bit working significand (24 bits and guard, round, sticky)
\* back into [2^26, 2^27).
RECURSIVE F32Norm27(_, _, _)
F32Norm27(s, n, e) ==
    IF n >= 134217728
    THEN F32Norm27(s, (n \div 2) + (IF n % 2 = 1 /\ (n \div 2) % 2 = 0 THEN 1 ELSE 0),
                   e + 1)
    ELSE IF n < 67108864 THEN F32Norm27(s, n * 2, e - 1)
    ELSE F32Pack(s, n \div 8, e + 3, n % 8, 8)

\* a + b
F32Add(a, b) ==
    IF a.nan \/ b.nan THEN F32NaN
    ELSE IF b.m = 0 THEN a
    ELSE IF a.m = 0 THEN b
    ELSE
    LET big   == IF F32MagLess(a, b) THEN b ELSE a
        small == IF F32MagLess(a, b) THEN a ELSE b
        d     == big.e - small.e
        B     == big.m * 8
        S     == IF d >= 27 THEN 1
                 ELSE ((small.m * 8) \div Pow2(d))
                      + (IF (small.m * 8) % Pow2(d) # 0
                            /\ ((small.m * 8) \div Pow2(d)) % 2 = 0 THEN 1 ELSE 0)
        R     == IF big.s = small.s THEN B + S ELSE B - S
    IN  IF R = 0 THEN F32Zero(0) ELSE F32Norm27(big.s, R, big.e - 3)

\* a - b
F32Sub(a, b) == F32Add(a, F32Neg(b))

\* f32::round: to the nearest integer, halves away from zero.
F32Round(a) ==
    IF a.nan \/ a.m = 0 \/ a.e >= 0 THEN a
    ELSE IF a.e <= -25 THEN F32Zero(a.s)
    ELSE
    LET k == Pow2(-a.e)
        i == (a.m \div k) + (IF 2 * (a.m % k) >= k THEN 1 ELSE 0)
    IN  IF i = 0 THEN F32Zero(a.s) ELSE [F32FromNat(i) EXCEPT !.s = a.s]

\* `a as u32`, `a as usize`: NaN and negative values give 0, the rest is
\* truncated toward zero.
F32ToNat(a) ==
    IF a.nan \/ a.s = 1 \/ a.m = 0 THEN 0
    ELSE IF a.e >= 0 THEN a.m * Pow2(a.e)
    ELSE IF a.e <= -24 THEN 0
    ELSE a.m \div Pow2(-a.e)

\* The f32 nearest to the fraction n / d (n >= 0, d > 0), as a literal such
\* as 0.5 is read.
F32Lit(s, n, d) ==
    [F32Div(F32FromNat(n), F32FromNat(d)) EXCEPT !.s = s]

(***************************************************************************)
(* Values                                                                  *)
(***************************************************************************)

\* Option<T>: None is the empty sequence, Some(v) the sequence <<v>>.
None == <<>>

Some(v) == <<v>>

IsSome(o) == o # None

unwrap_or(o, d) == IF IsSome(o) THEN o[1] ELSE d

\* Bounds of the model.
MaxSrc == 2
MaxWidth == 2
MaxChars == 3

\* Characters are one-character strings, a text is a sequence of them.
Ramp == <<" ", "#", "x", "@", "%", "&", "$", "*">>

Glyph(i) == IF i <= Len(Ramp) THEN Ramp[i] ELSE "#"

Charsets == { [i \in 1..n |-> Glyph(i)] : n \in 0..MaxChars }

\* A locator is its scheme prefix followed by the rest of the string.
Locators ==
    { <<"", "img.png">>, <<"http://", "host/img">>, <<"https://", "host/img">> }

starts_with(path, prefix) == Len(path) > 0 /\ path[1] = prefix

OutputPaths == { None, Some(<<"", "out.txt">>) }

Widths == { None } \cup { Some(n) : n \in 0..MaxWidth }

\* --symbol-aspect-ratio: the default 0.5, and 1.0, NaN.
DefaultRatio == F32Lit(0, 1, 2)

Ratios == { DefaultRatio, F32Lit(0, 1, 1), F32NaN }

ProgramParameters ==
    [ input_path : Locators, output_path : OutputPaths, output_width : Widths,
      symbol_aspect_ratio : Ratios, charset : Charsets ]

\* A pixel after get_pixel is Rgba: <<r, g, b, a>>.  An image is its
\* dimensions <<width, height>> and its pixels, given as a cycle of
\* <<luma, alpha>> pairs laid over the image in row-major order (a cycle of
\* one pair is a solid image); luma is the value grayscale() gives the
\* pixel, 255 for white.
U8Max == 255

White == <<255, 255>>

Pixels == { <<0, 255>>, White, <<128, 255>>, <<255, 0>> }

Textures ==
    { <<p>> : p \in Pixels } \cup { << <<0, 255>>, White >>,
                                     << <<128, 255>>, <<255, 0>>, White >> }

SrcDims == (1..MaxSrc) \X (1..MaxSrc)

Images == [ dimensions : SrcDims, pix : Textures ]

get_pixel(img, x, y) ==
    LET p == img.pix[((x + y * img.dimensions[1]) % Len(img.pix)) + 1]
    IN  <<p[1], p[1], p[1], p[2]>>

\* ProgramError
Errors ==
    { "InvalidInputPath", "FailedToDecodeInput", "FailedToWriteToOutput",
      "FailedToDownload", "DownloadInvalid" }

Ok == [ok |-> TRUE, err |-> ""]

Err(e) == [ok |-> FALSE, err |-> e]

(***************************************************************************)
(* State                                                                   *)
(***************************************************************************)
VARIABLES
    pc,           \* where the process is
    params,       \* the ProgramParameters main builds from the command line
    response,     \* load_image_from_url: the HTTP response, None before it
    decode_call,  \* the decoder load_image called: "none", "auto" or a format
    img,          \* generate_image: the loaded image, None before it
    img2,         \* generate_image: the resized grayscale image
    ascii_image,  \* the AsciiImage under construction
    x, y,         \* copy_from: the cell the loops are at
    res,          \* what generate_image returned, None before it returns
    stdout,       \* the text printed so far
    file,         \* what std::fs::write has left in the output file, None before
    call          \* a single call of a pure function (SpecQuant, SpecGeom)

vars ==
    <<pc, params, response, decode_call, img, img2, ascii_image, x, y, res,
      stdout, file, call>>

Idle == [fn |-> "none"]

Init ==
    /\ pc = "generate_image"
    /\ params \in ProgramParameters
    /\ response = None
    /\ decode_call = "none"
    /\ img = None
    /\ img2 = None
    /\ ascii_image = None
    /\ x = 0
    /\ y = 0
    /\ res = None
    /\ stdout = <<>>
    /\ file = None
    /\ call = Idle

(***************************************************************************)
(* Image acquisition                                                       *)
(***************************************************************************)

\* image::ImageFormat::from_mime_type
from_mime_type(mime) ==
    CASE mime = "image/png" -> Some("Png")
      [] mime = "image/jpeg" -> Some("Jpeg")
      [] OTHER -> None

\* A Content-Type header value is text, or bytes HeaderValue::to_str rejects.
HeaderValues ==
    { [text |-> TRUE, value |-> v] : v \in {"image/png", "image/jpeg", "text/html"} }
    \cup { [text |-> FALSE, value |-> ""] }

\* A body is the image format its bytes are in ("" when they are no image)
\* and whether Response::bytes can read it to the end.
Bodies == [ format : {"Png", "Jpeg", ""}, readable : BOOLEAN ]

\* What reqwest::blocking::get returns: an error (ok is FALSE), or a
\* response with its Content-Type header, if any, and its body.
Responses == [ ok : {TRUE}, content_type : {None} \cup { Some(h) : h \in HeaderValues },
               body : Bodies ]

GetFailed ==
    [ ok |-> FALSE, content_type |-> None, body |-> [format |-> "", readable |-> FALSE] ]

\* A variant that rejects a header it cannot read as text (used to test
\* the properties below).
get_image_format_from_response_strict(resp) ==
    IF IsSome(resp.content_type)
    THEN LET format == IF resp.content_type[1].text
                       THEN from_mime_type(resp.content_type[1].value)
                       ELSE None
         IN  IF IsSome(format)
             THEN [tag |-> "Some", format |-> format[1]]
             ELSE [tag |-> "Invalid", format |-> ""]
    ELSE [tag |-> "None", format |-> ""]

get_image_format_from_response(resp) ==
    IF IsSome(resp.content_type)
    THEN IF resp.content_type[1].text
         THEN LET format == from_mime_type(resp.content_type[1].value)
              IN  IF IsSome(format)
                  THEN [tag |-> "Some", format |-> format[1]]
                  ELSE [tag |-> "Invalid", format |-> ""]
         ELSE [tag |-> "None", format |-> ""]
    ELSE [tag |-> "None", format |-> ""]

\* image::load_from_memory: the format is guessed from the bytes, which
\* encode image i.
load_from_memory(body, i) == IF body.format # "" THEN i ELSE None

\* image::load_from_memory_with_format
load_from_memory_with_format(body, format, i) ==
    IF body.format # "" /\ body.format = format THEN i ELSE None

\* load_image_from_url once the GET has answered with resp, whose body
\* encodes image i if it encodes any: the decoder called and the Result, an
\* image or an error.
url_result(resp, i) ==
    LET f == get_image_format_from_response(resp)
    IN  CASE f.tag = "Invalid" ->
               [decoder |-> "none", image |-> None, err |-> "DownloadInvalid"]
          [] ~resp.body.readable ->
               [decoder |-> "none", image |-> None, err |-> "DownloadInvalid"]
          [] f.tag = "None" ->
               LET d == load_from_memory(resp.body, i)
               IN  [decoder |-> "auto", image |-> d,
                    err |-> IF d = None THEN "DownloadInvalid" ELSE ""]
          [] OTHER ->
               LET d == load_from_memory_with_format(resp.body, f.format, i)
               IN  [decoder |-> f.format, image |-> d,
                    err |-> IF d = None THEN "DownloadInvalid" ELSE ""]

\* What load_image leaves: an image and pc at the resize, or the error
\* returned through generate_image to main.
Loaded(r) ==
    /\ decode_call' = r.decoder
    /\ img' = r.image
    /\ IF r.image = None
       THEN res' = Some(Err(r.err)) /\ pc' = "main_match"
       ELSE res' = res /\ pc' = "resize"

load_image_from_url ==
    /\ pc = "generate_image"
    /\ starts_with(params.input_path, "http://")
       \/ starts_with(params.input_path, "https://")
    /\ \/ /\ response' = Some(GetFailed)
          /\ Loaded([decoder |-> "none", image |-> None, err |-> "FailedToDownload"])
       \/ \E resp \in Responses :
            /\ response' = Some(resp)
            /\ \E i \in IF resp.body.format = "" THEN {None} ELSE { Some(j) : j \in Images } :
                 Loaded(url_result(resp, i))
    /\ UNCHANGED <<params, img2, ascii_image, x, y, stdout, file, call>>

load_image_from_file ==
    /\ pc = "generate_image"
    /\ ~(starts_with(params.input_path, "http://")
         \/ starts_with(params.input_path, "https://"))
    /\ \/ Loaded([decoder |-> "none", image |-> None, err |-> "InvalidInputPath"])
       \/ Loaded([decoder |-> "auto", image |-> None, err |-> "FailedToDecodeInput"])
       \/ \E i \in Images :
            Loaded([decoder |-> "auto", image |-> Some(i), err |-> ""])
    /\ UNCHANGED <<params, response, img2, ascii_image, x, y, stdout, file, call>>

load_image == load_image_from_url \/ load_image_from_file


(***************************************************************************)
(* generate_image: the target size and the resize                          *)
(***************************************************************************)

\* A variant that rounds to the nearest integer instead of truncating (used
\* to test the properties below).
ascii_art_height_rounded(orig_w, orig_h, w, r) ==
    LET aspect_ratio == F32Div(F32FromNat(orig_w), F32FromNat(orig_h))
    IN  F32ToNat(F32Round(F32Div(F32Mul(F32FromNat(w), r), aspect_ratio)))

\* (w as f32 * symbol_aspect_ratio / aspect_ratio) as u32, with
\* aspect_ratio = orig_w as f32 / orig_h as f32
ascii_art_height(orig_w, orig_h, w, r) ==
    LET aspect_ratio == F32Div(F32FromNat(orig_w), F32FromNat(orig_h))
    IN  F32ToNat(F32Div(F32Mul(F32FromNat(w), r), aspect_ratio))

\* The sizes generate_image asks resize_exact for.
target_size(dimensions, output_width, r) ==
    LET w == unwrap_or(output_width, dimensions[1])
    IN  <<w, ascii_art_height(dimensions[1], dimensions[2], w, r)>>

\* img.grayscale().resize_exact(w, h, CatmullRom): an image of exactly the
\* size asked for; a solid image stays solid, any other may come out as any
\* texture.
Resized(i, size) ==
    { [dimensions |-> size, pix |-> t] :
        t \in IF Len(i.pix) = 1 THEN {i.pix} ELSE Textures }

\* load_image has returned: its locals are gone.
resize ==
    /\ pc = "resize"
    /\ \E r \in Resized(img[1], target_size(img[1].dimensions, params.output_width,
                                            params.symbol_aspect_ratio)) :
         img2' = Some(r)
    /\ response' = None
    /\ decode_call' = "none"
    /\ pc' = "create_from"
    /\ UNCHANGED <<params, img, ascii_image, x, y, res, stdout, file, call>>

(***************************************************************************)
(* AsciiImage                                                              *)
(***************************************************************************)

\* A variant with the two dimensions exchanged (used to test the
\* properties below).
create_empty_transposed(dimensions) ==
    [ dimensions |-> dimensions,
      data |-> [row \in 1..dimensions[1] |-> [col \in 1..dimensions[2] |-> "."]] ]

create_empty(dimensions) ==
    [ dimensions |-> dimensions,
      data |-> [row \in 1..dimensions[2] |-> [col \in 1..dimensions[1] |-> "."]] ]

\* (pixel[0] as f32 / u8::MAX as f32) * (pixel[3] as f32 / u8::MAX as f32)
brightness(pixel) ==
    F32Mul(F32Div(F32FromNat(pixel[1]), F32FromNat(U8Max)),
           F32Div(F32FromNat(pixel[4]), F32FromNat(U8Max)))

\* f32::clamp: panics unless min <= max; NaN stays NaN.
F32Clamp(v, min, max) ==
    IF min.nan \/ max.nan \/ F32Less(max, min)
    THEN [panic |-> TRUE, value |-> v]
    ELSE [panic |-> FALSE,
          value |-> IF F32Less(v, min) THEN min
                    ELSE IF F32Less(max, v) THEN max ELSE v]

\* A variant without the clamp (used to test the properties below).
brightness_to_index_unclamped(b, num_chars) ==
    [panic |-> FALSE,
     index |-> F32ToNat(F32Round(F32Sub(F32Mul(b, F32FromNat(num_chars)),
                                        F32Lit(0, 1, 2))))]

\* (brightness * num_chars as f32 - 0.5).round()
\*     .clamp(0.0, num_chars as f32 - 1.0) as usize
brightness_to_index(b, num_chars) ==
    LET n == F32FromNat(num_chars)
        c == F32Clamp(F32Round(F32Sub(F32Mul(b, n), F32Lit(0, 1, 2))),
                      F32Zero(0), F32Sub(n, F32Lit(0, 1, 1)))
    IN  [panic |-> c.panic, index |-> IF c.panic THEN 0 ELSE F32ToNat(c.value)]

\* charset.chars().nth(i)
nth(charset, i) == IF i < Len(charset) THEN Some(charset[i + 1]) ELSE None

\* The body of copy_from's loops at cell (cx, cy): the symbol to store, or a
\* panic (the clamp's assertion, the unwrap of a missing character).
cell_symbol(image, charset, cx, cy) ==
    LET i == brightness_to_index(brightness(get_pixel(image, cx, cy)), Len(charset))
    IN  IF i.panic THEN None ELSE nth(charset, i.index)

\* create_from: create_empty, then copy_from's assertion on the dimensions.
create_from ==
    /\ pc = "create_from"
    /\ ascii_image' = Some(create_empty(img2[1].dimensions))
    /\ x' = 0
    /\ y' = 0
    /\ pc' = IF img2[1].dimensions = ascii_image'[1].dimensions
             THEN "copy_from" ELSE "panicked"
    /\ UNCHANGED <<params, response, decode_call, img, img2, res, stdout, file, call>>

\* Is there a cell left for the loops `for y in 0..h { for x in 0..w` ?
MoreCells(a) == y < a.dimensions[2] /\ x < a.dimensions[1]

\* One pass through the inner loop's body, at (x, y).
copy_from_cell ==
    /\ pc = "copy_from"
    /\ MoreCells(ascii_image[1])
    /\ LET a      == ascii_image[1]
           symbol == cell_symbol(img2[1], params.charset, x, y)
           last   == x + 1 >= a.dimensions[1]
       IN  IF symbol = None \/ y >= Len(a.data) \/ x >= Len(a.data[y + 1])
           THEN /\ pc' = "panicked"
                /\ UNCHANGED <<ascii_image, x, y>>
           ELSE /\ ascii_image' =
                      Some([a EXCEPT !.data[y + 1][x + 1] = symbol[1]])
                /\ x' = IF last THEN 0 ELSE x + 1
                /\ y' = IF last THEN y + 1 ELSE y
                /\ pc' = pc
    /\ UNCHANGED <<params, response, decode_call, img, img2, res, stdout, file, call>>

\* The loops are over: copy_from and create_from return.
copy_from_return ==
    /\ pc = "copy_from"
    /\ ~MoreCells(ascii_image[1])
    /\ pc' = "output"
    /\ UNCHANGED <<params, response, decode_call, img, img2, ascii_image, x, y,
                   res, stdout, file, call>>

\* impl fmt::Display for AsciiImage
RECURSIVE fmt(_)
fmt(data) ==
    IF data = <<>> THEN <<>>
    ELSE Head(data) \o <<"\n">> \o fmt(Tail(data))

to_string(a) == fmt(a.data)

(***************************************************************************)
(* generate_image: the sink                                                *)
(***************************************************************************)

\* std::fs::write succeeds.
write_file ==
    /\ pc = "output"
    /\ IsSome(params.output_path)
    /\ file' = Some(to_string(ascii_image[1]))
    /\ res' = Some(Ok)
    /\ pc' = "main_match"
    /\ UNCHANGED <<params, response, decode_call, img, img2, ascii_image, x, y,
                   stdout, call>>

\* A variant that prints the art when the file cannot be written (used to
\* test the properties below).
write_file_fails_fallback ==
    /\ pc = "output"
    /\ IsSome(params.output_path)
    /\ file' \in {file, Some(<<>>)}
    /\ stdout' = stdout \o to_string(ascii_image[1])
    /\ res' = Some(Err("FailedToWriteToOutput"))
    /\ pc' = "main_match"
    /\ UNCHANGED <<params, response, decode_call, img, img2, ascii_image, x, y, call>>

\* std::fs::write fails: the file could not be created, or was created and
\* could not be written.
write_file_fails ==
    /\ pc = "output"
    /\ IsSome(params.output_path)
    /\ file' \in {file, Some(<<>>)}
    /\ res' = Some(Err("FailedToWriteToOutput"))
    /\ pc' = "main_match"
    /\ UNCHANGED <<params, response, decode_call, img, img2, ascii_image, x, y,
                   stdout, call>>

\* println!("{ascii_image}")
print_image ==
    /\ pc = "output"
    /\ ~IsSome(params.output_path)
    /\ stdout' = stdout \o to_string(ascii_image[1]) \o <<"\n">>
    /\ res' = Some(Ok)
    /\ pc' = "main_match"
    /\ UNCHANGED <<params, response, decode_call, img, img2, ascii_image, x, y,
                   file, call>>

generate_image ==
    \/ load_image
    \/ resize
    \/ create_from
    \/ copy_from_cell
    \/ copy_from_return
    \/ write_file
    \/ write_file_fails
    \/ print_image

(***************************************************************************)
(* main                                                                    *)
(***************************************************************************)

\* The line main prints for an error, without its newline; None where
\* args.output.unwrap() panics.
message(err, args) ==
    CASE err = "InvalidInputPath" ->
           Some(<<"Failed to open: ">> \o args.input_path)
      [] err = "FailedToDecodeInput" ->
           Some(<<"Failed to decode input image!">>)
      [] err = "FailedToWriteToOutput" ->
           IF IsSome(args.output_path)
           THEN Some(<<"Failed to save output to: ">> \o args.output_path[1])
           ELSE None
      [] err = "FailedToDownload" ->
           Some(<<"Failed to download: ">> \o args.input_path)
      [] OTHER ->
           Some(<<"Invalid source: ">> \o args.input_path)

\* match res { Ok(_) => {} Err(err) => println!(...) }
main_match ==
    /\ pc = "main_match"
    /\ IF res[1].ok
       THEN stdout' = stdout /\ pc' = "exit"
       ELSE LET line == message(res[1].err, params)
            IN  IF line = None
                THEN stdout' = stdout /\ pc' = "panicked"
                ELSE stdout' = stdout \o line[1] \o <<"\n">> /\ pc' = "exit"
    /\ UNCHANGED <<params, response, decode_call, img, img2, ascii_image, x, y,
                   res, file, call>>

Next == generate_image \/ main_match

Spec == Init /\ [][Next]_vars

(***************************************************************************)
(* Single calls of the pure parts, over wider inputs                       *)
(***************************************************************************)

\* The rest of the state while one function is called on its own.
NoConversion ==
    /\ pc = "call"
    /\ params = [ input_path |-> <<"", "img.png">>, output_path |-> None,
                  output_width |-> None, symbol_aspect_ratio |-> DefaultRatio,
                  charset |-> <<" ", "#">> ]
    /\ response = None
    /\ decode_call = "none"
    /\ img = None
    /\ img2 = None
    /\ ascii_image = None
    /\ x = 0
    /\ y = 0
    /\ res = None
    /\ stdout = <<>>
    /\ file = None

\* brightness_to_index: the brightness of every pixel of a few alphas, a few
\* values outside [0, 1], and charset sizes small and huge.
MaxQuantChars == 6
MaxBigChars == 4

QuantAlphas == {0, 1, 127, 128, 254, 255}

QuantBrightness ==
    { brightness(<<l, l, l, a>>) : l \in 0..U8Max, a \in QuantAlphas }
    \cup { F32Lit(1, 1, 2), F32Lit(0, 3, 2), F32Lit(0, 2, 1), F32Lit(1, 4, 1), F32NaN }

QuantNumChars ==
    (1..MaxQuantChars) \cup { TwoTo24 - 1 + k : k \in 0..MaxBigChars }

InitQuant ==
    /\ NoConversion
    /\ call \in [ fn : {"brightness_to_index"}, brightness : QuantBrightness,
                  num_chars : QuantNumChars, ret : {None} ]

call_brightness_to_index ==
    /\ call.fn = "brightness_to_index"
    /\ call.ret = None
    /\ call' = [call EXCEPT
                  !.ret = Some(brightness_to_index(call.brightness, call.num_chars))]
    /\ UNCHANGED <<pc, params, response, decode_call, img, img2, ascii_image, x, y,
                   res, stdout, file>>

SpecQuant == InitQuant /\ [][call_brightness_to_index]_vars

\* The target size and the resize of generate_image, lines 85 to 93.
MaxGeomSrc == 7
MaxGeomWidth == 8

GeomDims == ((1..MaxGeomSrc) \X (1..MaxGeomSrc)) \cup { <<100, 50>> }

GeomWidths == { None } \cup { Some(n) : n \in (0..MaxGeomWidth) \cup {50} }

GeomRatios ==
    { DefaultRatio, F32Lit(0, 1, 1), F32Lit(0, 3, 10), F32Lit(0, 1, 3),
      F32Lit(0, 2, 1), F32Lit(0, 0, 1), F32Lit(1, 1, 2), F32NaN }

InitGeom ==
    /\ NoConversion
    /\ call \in [ fn : {"resize"}, image : [ dimensions : GeomDims, pix : {<<White>>} ],
                  output_width : GeomWidths, r : GeomRatios, ret : {None} ]

call_resize ==
    /\ call.fn = "resize"
    /\ call.ret = None
    /\ \E r \in Resized(call.image,
                        target_size(call.image.dimensions, call.output_width, call.r)) :
         call' = [call EXCEPT !.ret = Some(r)]
    /\ UNCHANGED <<pc, params, response, decode_call, img, img2, ascii_image, x, y,
                   res, stdout, file>>

SpecGeom == InitGeom /\ [][call_resize]_vars

(***************************************************************************)
(* Properties                                                              *)
(***************************************************************************)

\* The sampling pass is over and the grid is complete.
Rendered == pc \in {"output", "main_match", "exit"} /\ IsSome(ascii_image)

Succeeded == pc = "exit" /\ IsSome(res) /\ res[1].ok

Failed == IsSome(res) /\ ~res[1].ok

Text == to_string(ascii_image[1])

\* sub occurs in s as a contiguous run.
Contains(s, sub) ==
    \E i \in 1..(Len(s) - Len(sub) + 1) : SubSeq(s, i, i + Len(sub) - 1) = sub

Newlines(s) == Cardinality({ i \in 1..Len(s) : s[i] = "\n" })

F32One == [nan |-> FALSE, s |-> 0, m |-> TwoTo23, e |-> -23]

\* The end-to-end scenario of C1: a 2x2 solid white opaque source, charset
\* " #", the default symbol aspect ratio, requested width 2.
Scenario ==
    /\ IsSome(img)
    /\ img[1] = [dimensions |-> <<2, 2>>, pix |-> <<White>>]
    /\ params.charset = <<" ", "#">>
    /\ params.symbol_aspect_ratio = DefaultRatio
    /\ params.output_width = Some(2)

\* C1 (as amended): in the end-to-end scenario the conversion does not
\* panic, the image is resized to 2x1 (height trunc(2 * 0.5 / 1.0) = 1),
\* every pixel has brightness 1.0 and quantized index 1, and the rendered
\* grid is the single row "##", whose text is "##\n".
EndToEndOneLine ==
    Scenario =>
      /\ pc # "panicked"
      /\ IsSome(img2) =>
           /\ img2[1].dimensions = <<2, 1>>
           /\ \A cx \in 0..1 :
                /\ brightness(get_pixel(img2[1], cx, 0)) = F32One
                /\ brightness_to_index(brightness(get_pixel(img2[1], cx, 0)), 2)
                     = [panic |-> FALSE, index |-> 1]
      /\ Rendered =>
           /\ ascii_image[1].data = << <<"#", "#">> >>
           /\ Text = <<"#", "#", "\n">>

\* C1 as stated: in the end-to-end scenario the rendered text is the two
\* lines "##\n##\n".
EndToEndTwoLines ==
    (Scenario /\ Rendered) => Text = <<"#", "#", "\n", "#", "#", "\n">>

EndToEndDone == Scenario /\ Succeeded /\ stdout # <<>>

\* C2: no conversion panics, whatever the parameters.
NeverPanics == pc # "panicked"

Degenerate ==
    /\ IsSome(img2)
    /\ img2[1].dimensions[1] = 0 \/ img2[1].dimensions[2] = 0

\* What reached the sink: the output file if a path was given, standard
\* output otherwise.
Emitted == IF IsSome(params.output_path) THEN file[1] ELSE stdout

\* C3: when the requested width is 0 or the computed height is 0 the
\* conversion does not panic, the grid has no rows and the text that
\* reaches the sink is empty.
DegenerateIsEmpty ==
    Degenerate =>
      /\ pc # "panicked"
      /\ IsSome(ascii_image) => Len(ascii_image[1].data) = 0
      /\ Succeeded => Emitted = <<>>

\* The text of a grid of the given size: each row's characters and one
\* newline, nothing else.
IsSerialization(t, a) ==
    LET w == a.dimensions[1]
        h == a.dimensions[2]
    IN  /\ Len(t) = h * (w + 1)
        /\ \A r \in 1..h :
             /\ \A c \in 1..w : t[(r - 1) * (w + 1) + c] = a.data[r][c]
             /\ t[r * (w + 1)] = "\n"

\* C4: after a successful conversion the sink holds exactly the grid's
\* serialization (height lines of width characters, each ended by one
\* newline) and nothing was written anywhere else.
EmittedIsSerialization ==
    Succeeded =>
      /\ IsSerialization(Emitted, ascii_image[1])
      /\ IsSome(params.output_path) => stdout = <<>>
      /\ ~IsSome(params.output_path) => file = None

\* The locator an error is about.
Offending(err) ==
    IF err = "FailedToWriteToOutput" THEN params.output_path[1] ELSE params.input_path

\* C5: after a failed conversion main has printed exactly one line, and the
\* line contains the offending locator.
ErrorLineNamesLocator ==
    (pc = "exit" /\ Failed) =>
      /\ Newlines(stdout) = 1
      /\ stdout[Len(stdout)] = "\n"
      /\ Contains(stdout, Offending(res[1].err))

\* The image format a Content-Type value names, if it is a recognized one.
RecognizedMime == { <<"image/png", "Png">>, <<"image/jpeg", "Jpeg">> }

IsRecognized(h) == h.text /\ \E p \in RecognizedMime : p[1] = h.value

DownloadInvalid ==
    /\ img = None
    /\ res = Some(Err("DownloadInvalid"))

\* C6 (as amended): after load_image_from_url, a failed GET gives
\* FailedToDownload; a Content-Type that is present, readable as text and
\* not a recognized image type gives DownloadInvalid with no decoder called;
\* a Content-Type that is absent, or present but not readable as text, has
\* the body decoded with format auto-detection; a recognized Content-Type
\* has the body decoded as that format; and whenever the body cannot be
\* read or decoded the result is DownloadInvalid.
UrlLoadByContentType ==
    IsSome(response) =>
      IF ~response[1].ok
      THEN /\ img = None
           /\ decode_call = "none"
           /\ res = Some(Err("FailedToDownload"))
      ELSE LET ct   == response[1].content_type
               body == response[1].body
           IN  /\ (IsSome(ct) /\ ct[1].text /\ ~IsRecognized(ct[1])) =>
                    /\ DownloadInvalid
                    /\ decode_call = "none"
               /\ (ct = None \/ (IsSome(ct) /\ ~ct[1].text)) =>
                    /\ body.readable => decode_call = "auto"
                    /\ IsSome(img) <=> (body.readable /\ body.format # "")
                    /\ img = None => DownloadInvalid
               /\ (IsSome(ct) /\ IsRecognized(ct[1])) =>
                    /\ body.readable =>
                         <<ct[1].value, decode_call>> \in RecognizedMime
                    /\ IsSome(img) <=>
                         (body.readable /\ <<ct[1].value, body.format>> \in RecognizedMime)
                    /\ img = None => DownloadInvalid

\* C6 as stated: a Content-Type that is present and not a recognized image
\* type gives DownloadInvalid with no decoder called, and only an absent
\* Content-Type has the body decoded with format auto-detection.
UrlLoadFallbackOnlyWhenAbsent ==
    (IsSome(response) /\ response[1].ok) =>
      LET ct == response[1].content_type
      IN  /\ (IsSome(ct) /\ ~IsRecognized(ct[1])) =>
               (DownloadInvalid /\ decode_call = "none")
          /\ decode_call = "auto" => ct = None

UrlLoadUnreadableHeader ==
    /\ IsSome(response)
    /\ response[1].ok
    /\ IsSome(response[1].content_type)
    /\ ~response[1].content_type[1].text
    /\ decode_call = "auto"
    /\ IsSome(img)

\* Every cell of the grid holds a character of the charset.
AllSampled ==
    /\ IsSome(ascii_image)
    /\ \A r \in 1..Len(ascii_image[1].data) :
         \A c \in 1..Len(ascii_image[1].data[r]) :
           \E k \in 1..Len(params.charset) :
             ascii_image[1].data[r][c] = params.charset[k]

\* C7: a conversion that ends in an error leaves no art on standard output
\* (only, once main has reported it, the error line); the output file is
\* written only after the load, the resize and the whole rendering; a
\* failed write ends in FailedToWriteToOutput; and a successful conversion
\* has put the art in exactly one sink, the file if a path was given,
\* standard output otherwise.
FailureOrdering ==
    /\ Failed =>
         stdout = IF pc = "exit"
                  THEN message(res[1].err, params)[1] \o <<"\n">>
                  ELSE <<>>
    /\ IsSome(file) =>
         /\ IsSome(img) /\ IsSome(img2) /\ Rendered /\ AllSampled
         /\ pc \in {"main_match", "exit"}
         /\ IsSome(params.output_path)
         /\ res \in {Some(Ok), Some(Err("FailedToWriteToOutput"))}
    /\ (IsSome(res) /\ res[1].ok) =>
         IF IsSome(params.output_path)
         THEN file = Some(Text) /\ stdout = <<>>
         ELSE /\ file = None
              /\ Len(stdout) > 0
              /\ SubSeq(stdout, 1, Len(Text)) = Text

WriteFailedAfterRendering ==
    /\ pc = "exit"
    /\ res = Some(Err("FailedToWriteToOutput"))
    /\ Text # <<>>

QuantizerInRange ==
    (call.fn = "brightness_to_index" /\ IsSome(call.ret) /\ call.num_chars >= 1) =>
      /\ ~call.ret[1].panic
      /\ call.ret[1].index >= 0
      /\ call.ret[1].index <= call.num_chars - 1

\* C10: from create_empty on, the grid has as many rows as its height, every
\* row is as long as its width, its dimensions are those of the resized
\* image, and the cell the sampling pass is about to write lies inside it.
GridShape ==
    IsSome(ascii_image) =>
      LET a == ascii_image[1]
      IN  /\ Len(a.data) = a.dimensions[2]
          /\ \A r \in 1..Len(a.data) : Len(a.data[r]) = a.dimensions[1]
          /\ a.dimensions = img2[1].dimensions
          /\ (pc = "copy_from" /\ MoreCells(a)) =>
               (y + 1 <= Len(a.data) /\ x + 1 <= Len(a.data[y + 1]))

GridHalfSampled ==
    /\ pc = "copy_from"
    /\ IsSome(ascii_image)
    /\ ascii_image[1].dimensions = <<2, 2>>
    /\ x = 1
    /\ y = 1
    /\ ascii_image[1].data[1][1] # "."
    /\ ascii_image[1].data[2][2] = "."
====
